---- MODULE Spec2Model ----
(***************************************************************************)
(* SimpleStore: the storage layer (DatabaseStorage) and the Express routes *)
(* in front of it.  The relational database is the state; every storage    *)
(* method is an operator from a database value to a database value, and    *)
(* every request is an action.                                             *)
(***************************************************************************)
EXTENDS Integers, Sequences, FiniteSets, TLC

VARIABLES
    db,      \* the database: tables, serial counters
    today,   \* the server's clock, as a day number (day 1 = 2024-01-01)
    last,    \* the outcome of the last storage call (what its caller saw)
    calls,   \* createXxx calls in flight, between their count query and their transaction
    req,     \* the last HTTP request and the response it got
    out      \* the rows returned by the last report query

vars == <<db, today, last, calls, req, out>>

----------------------------------------------------------------------------
(* Bounds of the model *)

MaxCreates == 2      \* at most MaxCreates createXxx calls are made (all kinds together)
InitStock == 3       \* the stock of every product at the start
MaxCalls == 2        \* the createXxx calls that may be in flight together
MaxPosts == 1        \* at most MaxPosts rows are inserted through the routes

----------------------------------------------------------------------------
(* Schema *)

Kinds == {"PO", "SO", "RET"}     \* purchase orders, sales orders, product returns

\* the tables with a serial id
Tables == Kinds \cup {"categories", "products", "customers", "vendors"}

\* pgEnum values
userRoleEnum == {"admin", "cashier", "warehouse", "owner"}
purchaseStatusEnum == {"pending", "partial", "completed", "cancelled"}
paymentStatusEnum == {"unpaid", "partial", "paid"}
returnStatusEnum == {"pending", "processing", "completed", "rejected"}

StatusEnum(kind) ==
    CASE kind = "PO" -> purchaseStatusEnum
      [] kind = "SO" -> paymentStatusEnum
      [] kind = "RET" -> returnStatusEnum

\* the column default of status / payment_status
DefaultStatus(kind) == IF kind = "SO" THEN "unpaid" ELSE "pending"

NULL == 0            \* SQL NULL in a nullable integer column (serial ids start at 1)

Dates == {1, 2}        \* the days the clock and the order dates run over

----------------------------------------------------------------------------
(* Calendar and text: date-fns format(d, 'yyyyMMdd'), Number.toString,     *)
(* String.padStart.  A string is a sequence of one-character strings.      *)

Digit == <<"0", "1", "2", "3", "4", "5", "6", "7", "8", "9">>

RECURSIVE toString(_)
toString(n) ==
    IF n < 10 THEN <<Digit[n + 1]>>
    ELSE toString(n \div 10) \o <<Digit[(n % 10) + 1]>>

RECURSIVE padStart(_, _, _)
padStart(s, targetLength, padString) ==
    IF Len(s) >= targetLength THEN s
    ELSE padStart(<<padString>> \o s, targetLength, padString)

IsLeap(y) == (y % 4 = 0 /\ y % 100 # 0) \/ y % 400 = 0

DaysInMonth(y, m) ==
    IF m = 2 THEN (IF IsLeap(y) THEN 29 ELSE 28)
    ELSE IF m \in {4, 6, 9, 11} THEN 30 ELSE 31

EpochYear == 2024

\* day number n (1 = 1 January of EpochYear) as year, month, day of month
RECURSIVE YMDFrom(_, _, _)
YMDFrom(y, m, n) ==
    IF n <= DaysInMonth(y, m) THEN [y |-> y, m |-> m, d |-> n]
    ELSE IF m = 12 THEN YMDFrom(y + 1, 1, n - DaysInMonth(y, m))
    ELSE YMDFrom(y, m + 1, n - DaysInMonth(y, m))

YMD(n) == YMDFrom(EpochYear, 1, n)

\* format(date, 'yyyyMMdd')
FormatDate(n) ==
    LET t == YMD(n)
    IN  padStart(toString(t.y), 4, "0") \o padStart(toString(t.m), 2, "0")
            \o padStart(toString(t.d), 2, "0")

\* the days of the years from EpochYear up to, not including, year y
RECURSIVE DaysBeforeYear(_)
DaysBeforeYear(y) ==
    IF y <= EpochYear THEN 0
    ELSE DaysBeforeYear(y - 1) + (IF IsLeap(y - 1) THEN 366 ELSE 365)

\* the days of year y before its month m
RECURSIVE DaysBeforeMonth(_, _)
DaysBeforeMonth(y, m) ==
    IF m = 1 THEN 0 ELSE DaysBeforeMonth(y, m - 1) + DaysInMonth(y, m - 1)

\* new Date(year, monthIndex, day) as a day number: monthIndex counts from 0 and
\* runs over into the next year, day 0 is the last day of the month before
NewDate(year, monthIndex, day) ==
    LET y == year + (monthIndex \div 12)
        m == (monthIndex % 12) + 1
    IN  DaysBeforeYear(y) + DaysBeforeMonth(y, m) + day

Prefix(kind) ==
    CASE kind = "PO" -> <<"P", "O">>
      [] kind = "SO" -> <<"S", "O">>
      [] kind = "RET" -> <<"R", "E", "T">>

\* `${PREFIX}${dateStr}${(count + 1).toString().padStart(3, '0')}`
OrderNumber(kind, day, count) ==
    Prefix(kind) \o FormatDate(day) \o padStart(toString(count + 1), 3, "0")

----------------------------------------------------------------------------
(* The database *)

Products == {1, 2}           \* the product ids that exist at the start
Parties == {1}               \* the customer ids, and the vendor ids, at the start
Categories == {1}

\* money is counted in halves of the currency unit, so that amount * 0.5 is a
\* whole number of them; the cost price of every product at the start is 2 units
InitCostPrice == 4

InitDb ==
    [ categories |-> Categories,
      products   |-> [p \in Products |->
                        [categoryId |-> 1, stock |-> InitStock, costPrice |-> InitCostPrice]],
      customers  |-> Parties,
      vendors    |-> Parties,
      orders     |-> [k \in Kinds |-> {}],   \* purchase_orders, sales_orders, product_returns
      items      |-> [k \in Kinds |-> {}],   \* purchase_order_items, sales_order_items, return_items
      seq        |-> [t \in Tables |-> 0],   \* the serial behind each table's id
      itemSeq    |-> [k \in Kinds |-> 0] ]   \* the serial behind each item table's id

\* vendor_id references vendors; customer_id references customers
PartyTable(d, kind) == IF kind = "PO" THEN d.vendors ELSE d.customers

\* (mutant) every kind of order adds to the stock
StockSignPlus(kind) == 1

\* +quantity for a purchase order and a return, -quantity for a sales order
StockSign(kind) == IF kind = "SO" THEN -1 ELSE 1


----------------------------------------------------------------------------
(* Order creation: createPurchaseOrder, createSalesOrder,                  *)
(* createProductReturn.  The three methods are the same code on three      *)
(* pairs of tables; kind selects the pair, the prefix and the stock sign.  *)

\* (mutant) the count query without its date filter
CountAll(d, kind, day) == Cardinality(d.orders[kind])

\* select count(*) ... where date >= start of today and date <= end of today
\* (the column is a date, so both bounds compare as the day itself)
CountToday(d, kind, day) ==
    Cardinality({r \in d.orders[kind] : r.date >= day /\ r.date <= day})

\* the constraints of the order tables, checked when the row is inserted
OrderInsertOk(d, kind, input, orderNumber) ==
    /\ \A r \in d.orders[kind] : r.orderNumber # orderNumber
    /\ input.party \in PartyTable(d, kind)
    /\ input.status \in StatusEnum(kind)
    /\ (kind = "RET" /\ input.salesOrderId # NULL)
          => \E r \in d.orders["SO"] : r.id = input.salesOrderId

OrderRow(kind, id, input, orderNumber) ==
    [ id |-> id, orderNumber |-> orderNumber, party |-> input.party,
      date |-> input.date, totalAmount |-> input.totalAmount,
      status |-> input.status,
      dueDate |-> IF kind = "RET" THEN NULL ELSE input.dueDate,
      salesOrderId |-> IF kind = "RET" THEN input.salesOrderId ELSE NULL ]

\* (mutant) the update without its where clause
UpdateStockEveryRow(d, productId, delta) ==
    [d EXCEPT !.products = [p \in DOMAIN @ |-> [@[p] EXCEPT !.stock = @ + delta]]]

\* update products set stock = stock + delta where id = productId
UpdateStock(d, productId, delta) ==
    [d EXCEPT !.products =
        [p \in DOMAIN @ |-> IF p = productId
                            THEN [@[p] EXCEPT !.stock = @ + delta]
                            ELSE @[p]]]

\* for (const item of items) { insert the item row; update the product's stock }
\* on the transaction's connection w; stops at the first statement that fails
RECURSIVE InsertItems(_, _, _, _)
InsertItems(w, kind, orderId, items) ==
    IF items = <<>> THEN [ok |-> TRUE, db |-> w]
    ELSE LET item == Head(items)
             itemId == w.itemSeq[kind] + 1
             w1 == [w EXCEPT !.itemSeq[kind] = itemId]
         IN  IF item.productId \notin DOMAIN w.products
             THEN [ok |-> FALSE, db |-> w1]
             ELSE LET row == [id |-> itemId, orderId |-> orderId,
                              productId |-> item.productId, quantity |-> item.quantity]
                      w2 == [w1 EXCEPT !.items[kind] = @ \cup {row}]
                      w3 == UpdateStock(w2, item.productId, StockSign(kind) * item.quantity)
                  IN  InsertItems(w3, kind, orderId, Tail(items))

\* the callback given to db.transaction by the create methods
CreateTxBody(d, kind, input, orderNumber, items) ==
    LET id == d.seq[kind] + 1
        w1 == [d EXCEPT !.seq[kind] = id]
    IN  IF ~OrderInsertOk(d, kind, input, orderNumber)
        THEN [ok |-> FALSE, db |-> w1, id |-> id]
        ELSE LET w2 == [w1 EXCEPT !.orders[kind] = @ \cup {OrderRow(kind, id, input, orderNumber)}]
                 r == InsertItems(w2, kind, id, items)
             IN  [ok |-> r.ok, db |-> r.db, id |-> id]

\* (mutant) the statements run outside the transaction: nothing is undone
RollbackNothing(d, w) == w

\* (mutant) a transaction that commits what its callback did before it threw
TransactionCommitAlways(d, res) == res.db

\* what a rolled-back transaction leaves: the rows as they were; the values
\* drawn from the serials stay drawn
Rollback(d, w) == [d EXCEPT !.seq = w.seq, !.itemSeq = w.itemSeq]

\* db.transaction(callback): commit when the callback returns, roll back when it throws
Transaction(d, res) == IF res.ok THEN res.db ELSE Rollback(d, res.db)

createOrder(d, kind, day, input, items) ==
    LET count == CountToday(d, kind, day)
        orderNumber == OrderNumber(kind, day, count)
        res == CreateTxBody(d, kind, input, orderNumber, items)
    IN  [ok |-> res.ok, db |-> Transaction(d, res), id |-> res.id]

----------------------------------------------------------------------------
(* Order deletion: deletePurchaseOrder, deleteSalesOrder, deleteProductReturn *)

\* (mutant) the delete without the loop that reverts the stock
RevertNothing(w, kind, rows) == w

\* for (const item of items) revert the stock change of the item
RECURSIVE RevertItems(_, _, _)
RevertItems(w, kind, rows) ==
    IF rows = {} THEN w
    ELSE LET item == CHOOSE i \in rows : \A j \in rows : i.id <= j.id
         IN  RevertItems(UpdateStock(w, item.productId, -StockSign(kind) * item.quantity),
                         kind, rows \ {item})

\* product_returns.sales_order_id references sales_orders
OrderDeleteOk(d, kind, id) ==
    kind = "SO" => \A r \in d.orders["RET"] : r.salesOrderId # id

\* the callback given to db.transaction by the delete methods
DeleteTxBody(d, kind, id) ==
    LET rows == {i \in d.items[kind] : i.orderId = id}
        w1 == RevertItems(d, kind, rows)
        w2 == [w1 EXCEPT !.items[kind] = {i \in @ : i.orderId # id}]
    IN  IF ~OrderDeleteOk(w2, kind, id)
        THEN [ok |-> FALSE, db |-> w2]
        ELSE [ok |-> TRUE, db |-> [w2 EXCEPT !.orders[kind] = {r \in @ : r.id # id}]]

deleteOrder(d, kind, id) ==
    LET res == DeleteTxBody(d, kind, id)
    IN  [ok |-> res.ok, db |-> Transaction(d, res)]

----------------------------------------------------------------------------
(* Inputs *)

MissingProduct == 3          \* a product id that no product row has
MissingParty == 2            \* a customer / vendor id that no row has

Item(p, q) == [productId |-> p, quantity |-> q]

\* the item lists a client sends: none, one item, two items of one product,
\* two products, an unknown product first, an unknown product after a good item
ItemLists ==
    { <<>>,
      <<Item(1, 1)>>,
      <<Item(1, 1), Item(1, 2)>>,
      <<Item(2, 1), Item(1, 2)>>,
      <<Item(MissingProduct, 1)>>,
      <<Item(2, 2), Item(MissingProduct, 1)>> }

\* the order fields a client sends when it creates an order of this kind
OrderInputs(d, kind) ==
    [ party : Parties \cup {MissingParty},
      date : Dates,
      totalAmount : {0},
      status : {DefaultStatus(kind)},
      dueDate : {NULL},
      salesOrderId : IF kind = "RET"
                     THEN {NULL} \cup {r.id : r \in d.orders["SO"]}
                     ELSE {NULL} ]

----------------------------------------------------------------------------
(* The storage calls, one after the other *)

None == [none |-> TRUE]

NoCall == [op |-> "none", kind |-> "PO", id |-> 0, ok |-> TRUE, items |-> <<>>, base |-> None]

\* the number of rows inserted so far, over the seven tables with a serial id
Created(d) ==
    d.seq["PO"] + d.seq["SO"] + d.seq["RET"]
        + d.seq["categories"] + d.seq["products"] + d.seq["customers"] + d.seq["vendors"]

Init ==
    /\ db = InitDb
    /\ today = 1
    /\ last = NoCall
    /\ calls = <<>>
    /\ req = None
    /\ out = None

\* a createXxx call that runs alone, from its count query to the end of its transaction
CreateOrder(kind, input, items) ==
    /\ Created(db) < MaxCreates
    /\ LET res == createOrder(db, kind, today, input, items)
       IN  /\ db' = res.db
           /\ last' = [op |-> "create", kind |-> kind, id |-> res.id, ok |-> res.ok,
                       items |-> items, base |-> db]
    /\ out' = None
    /\ UNCHANGED <<today, calls, req>>

\* the call deletes the order that the call before it created
Undoes(kind, id) ==
    last.op = "create" /\ last.ok /\ last.kind = kind /\ last.id = id

\* a deleteXxx call; base remembers the database before the order was created
\* when the call directly follows that creation
DeleteOrder(kind, id) ==
    /\ LET res == deleteOrder(db, kind, id)
       IN  /\ db' = res.db
           /\ last' = [op |-> "delete", kind |-> kind, id |-> id, ok |-> res.ok,
                       items |-> IF Undoes(kind, id) THEN last.items ELSE <<>>,
                       base |-> IF Undoes(kind, id) THEN last.base ELSE None]
    /\ out' = None
    /\ UNCHANGED <<today, calls, req>>

\* midnight
Tick ==
    /\ today + 1 \in Dates
    /\ today' = today + 1
    /\ last' = NoCall
    /\ out' = None
    /\ UNCHANGED <<db, calls, req>>

Next ==
    \/ \E kind \in Kinds : \E input \in OrderInputs(db, kind) : \E items \in ItemLists :
          CreateOrder(kind, input, items)
    \/ \E kind \in Kinds : \E id \in 1..db.seq[kind] : DeleteOrder(kind, id)
    \/ Tick

Spec == Init /\ [][Next]_vars


----------------------------------------------------------------------------
(* Concurrent createXxx calls.  A call awaits its count query, then awaits *)
(* its transaction; other calls run between the two.  The transaction is   *)
(* one step: the database serialises it against the other transactions.    *)

CallIds == 1..MaxCalls

NotCalled == [pc |-> "start"]

\* the item lists whose products all exist
ValidItemLists ==
    {items \in ItemLists : \A i \in 1..Len(items) : items[i].productId \in Products}

\* orders dated today, of an existing customer or vendor
SameDayInputs(kind) ==
    {input \in OrderInputs(InitDb, kind) : input.party \in Parties /\ input.date = today}

InitConc ==
    /\ db = InitDb
    /\ today = 1
    /\ last = NoCall
    /\ calls = [c \in CallIds |-> NotCalled]
    /\ req = None
    /\ out = None

\* the call's count query returns and the call builds its order number
CountQuery(c, kind, input, items) ==
    /\ calls[c].pc = "start"
    /\ calls' = [calls EXCEPT ![c] =
                    [pc |-> "counted", kind |-> kind, input |-> input, items |-> items,
                     orderNumber |-> OrderNumber(kind, today, CountToday(db, kind, today))]]
    /\ UNCHANGED <<db, today, last, req, out>>

\* the call's transaction runs; the call returns the new order or throws
InsertTransaction(c) ==
    /\ calls[c].pc = "counted"
    /\ LET call == calls[c]
           res == CreateTxBody(db, call.kind, call.input, call.orderNumber, call.items)
       IN  /\ db' = Transaction(db, res)
           /\ calls' = [calls EXCEPT ![c] =
                           [call EXCEPT !.pc = IF res.ok THEN "returned" ELSE "threw"]]
    /\ UNCHANGED <<today, last, req, out>>

NextConc ==
    \/ \E c \in CallIds : \E kind \in Kinds : \E input \in SameDayInputs(kind) :
          \E items \in ValidItemLists : CountQuery(c, kind, input, items)
    \/ \E c \in CallIds : InsertTransaction(c)

SpecConc == InitConc /\ [][NextConc]_vars

Finished(c) == calls[c].pc \in {"returned", "threw"}

\* C3 (as claimed): two concurrent creations of one kind on one day both succeed
\* and get different order numbers, whatever the interleaving.
C3_ConcurrentCreates ==
    \A c1, c2 \in CallIds :
        (c1 # c2 /\ Finished(c1) /\ Finished(c2) /\ calls[c1].kind = calls[c2].kind) =>
            /\ calls[c1].pc = "returned"
            /\ calls[c2].pc = "returned"
            /\ calls[c1].orderNumber # calls[c2].orderNumber

----------------------------------------------------------------------------
(* The other storage methods the routes call *)

\* the ids of the rows the model starts with are below the serials' first value
NewId(d, table) == Cardinality(InitDb[table]) + d.seq[table] + 1

NewProductId(d) == Cardinality(DOMAIN InitDb.products) + d.seq["products"] + 1

\* createCategory, createCustomer, createVendor
createRecord(d, table) ==
    [ok |-> TRUE,
     db |-> [d EXCEPT !.seq[table] = @ + 1, ![table] = @ \cup {NewId(d, table)}]]

\* createProduct: category_id references categories
createProduct(d, body) ==
    LET id == NewProductId(d)
        d1 == [d EXCEPT !.seq["products"] = @ + 1]
    IN  IF body.categoryId \notin d.categories THEN [ok |-> FALSE, db |-> d1]
        ELSE [ok |-> TRUE,
              db |-> [d1 EXCEPT !.products =
                         [p \in DOMAIN @ \cup {id} |->
                             IF p = id THEN [categoryId |-> body.categoryId, stock |-> body.stock,
                                            costPrice |-> body.costPrice]
                             ELSE @[p]]]]

\* updateProduct: set the fields of the body on the row, and return the row
updateProduct(d, id, body) ==
    IF id \notin DOMAIN d.products THEN [found |-> FALSE, db |-> d]
    ELSE [found |-> TRUE,
          db |-> [d EXCEPT !.products[id].stock = body.stock,
                           !.products[id].costPrice = body.costPrice]]

\* deleteCategory: products.category_id references categories
deleteCategory(d, id) ==
    IF \E p \in DOMAIN d.products : d.products[p].categoryId = id
    THEN [ok |-> FALSE, db |-> d]
    ELSE [ok |-> TRUE, db |-> [d EXCEPT !.categories = @ \ {id}]]

\* deleteProduct: the three item tables reference products
deleteProduct(d, id) ==
    IF \E k \in Kinds : \E i \in d.items[k] : i.productId = id
    THEN [ok |-> FALSE, db |-> d]
    ELSE [ok |-> TRUE,
          db |-> [d EXCEPT !.products = [p \in DOMAIN @ \ {id} |-> @[p]]]]

\* deleteCustomer: sales_orders and product_returns reference customers
deleteCustomer(d, id) ==
    IF \E k \in {"SO", "RET"} : \E r \in d.orders[k] : r.party = id
    THEN [ok |-> FALSE, db |-> d]
    ELSE [ok |-> TRUE, db |-> [d EXCEPT !.customers = @ \ {id}]]

\* deleteVendor: purchase_orders references vendors
deleteVendor(d, id) ==
    IF \E r \in d.orders["PO"] : r.party = id
    THEN [ok |-> FALSE, db |-> d]
    ELSE [ok |-> TRUE, db |-> [d EXCEPT !.vendors = @ \ {id}]]

\* (mutant) the update without its where clause
updateOrderStatusEveryRow(d, kind, id, status) ==
    IF status \notin StatusEnum(kind) THEN [ok |-> FALSE, db |-> d]
    ELSE [ok |-> TRUE,
          db |-> [d EXCEPT !.orders[kind] = {[r EXCEPT !.status = status] : r \in @}]]

\* updatePurchaseOrderStatus, updateSalesOrderStatus, updateProductReturnStatus
updateOrderStatus(d, kind, id, status) ==
    IF status \notin StatusEnum(kind) THEN [ok |-> FALSE, db |-> d]
    ELSE [ok |-> TRUE,
          db |-> [d EXCEPT !.orders[kind] =
                     {IF r.id = id THEN [r EXCEPT !.status = status] ELSE r : r \in @}]]

----------------------------------------------------------------------------
(* The routes *)

\* a user as a request carries it: req.isAuthenticated(), req.user.role
Anonymous == [authenticated |-> FALSE]
Users == {Anonymous} \cup {[authenticated |-> TRUE, role |-> r] : r \in userRoleEnum}

\* (mutant) a gate that only asks for a session
checkRoleSessionOnly(roles, user) ==
    IF ~user.authenticated THEN [next |-> FALSE, status |-> 401]
    ELSE [next |-> TRUE, status |-> 200]

\* checkRole(roles): answer 401 or 403, or call next()
checkRole(roles, user) ==
    IF ~user.authenticated THEN [next |-> FALSE, status |-> 401]
    ELSE IF user.role \notin roles THEN [next |-> FALSE, status |-> 403]
    ELSE [next |-> TRUE, status |-> 200]

Route(method, path, guarded, roles, handler) ==
    [method |-> method, path |-> path, guarded |-> guarded, roles |-> roles, handler |-> handler]

\* app.get / app.post / app.put without checkRole
Open(method, path, handler) == Route(method, path, FALSE, {}, handler)

\* app.get / app.post / app.put / app.delete with checkRole(roles)
Guarded(method, path, roles, handler) == Route(method, path, TRUE, roles, handler)

GetRoutes ==
    { Open("GET", "/api/categories", "list"),
      Open("GET", "/api/products", "list"),
      Open("GET", "/api/products/:id", "getProductById"),
      Guarded("GET", "/api/products/low-stock/:threshold", {"admin", "warehouse", "owner"}, "list"),
      Open("GET", "/api/customers", "list"),
      Open("GET", "/api/customers/:id", "getCustomerById"),
      Open("GET", "/api/vendors", "list"),
      Open("GET", "/api/vendors/:id", "getVendorById"),
      Guarded("GET", "/api/purchase-orders", {"admin", "warehouse", "owner"}, "list"),
      Guarded("GET", "/api/purchase-orders/:id", {"admin", "warehouse", "owner"}, "getPurchaseOrderDetails"),
      Open("GET", "/api/sales-orders", "list"),
      Open("GET", "/api/sales-orders/:id", "getSalesOrderDetails"),
      Guarded("GET", "/api/returns", {"admin", "cashier", "warehouse", "owner"}, "list"),
      Guarded("GET", "/api/returns/:id", {"admin", "cashier", "warehouse", "owner"}, "getProductReturnDetails"),
      Guarded("GET", "/api/reports/accounts-payable", {"admin", "owner"}, "list"),
      Guarded("GET", "/api/reports/accounts-receivable", {"admin", "owner", "cashier"}, "list"),
      Guarded("GET", "/api/reports/inventory", {"admin", "owner", "warehouse"}, "list"),
      Guarded("GET", "/api/reports/profit-loss/:month/:year", {"admin", "owner"}, "list"),
      Guarded("GET", "/api/reports/monthly-sales/:year", {"admin", "owner", "cashier"}, "list"),
      Open("GET", "/api/dashboard/stats", "list"),
      Open("GET", "/api/dashboard/recent-transactions", "list"),
      Guarded("GET", "/api/export/invoice/:id", {"admin", "cashier", "owner"}, "getSalesOrderDetails"),
      Guarded("GET", "/api/export/purchase-order/:id", {"admin", "warehouse", "owner"}, "getPurchaseOrderDetails"),
      Guarded("GET", "/api/export/return/:id", {"admin", "cashier", "warehouse", "owner"}, "getProductReturnDetails"),
      Guarded("GET", "/api/export/report/:type", {"admin", "owner"}, "list") }

WriteRoutes ==
    { Guarded("POST", "/api/categories", {"admin", "owner"}, "createCategory"),
      Guarded("PUT", "/api/categories/:id", {"admin", "owner"}, "updateCategory"),
      Guarded("POST", "/api/products", {"admin", "warehouse", "owner"}, "createProduct"),
      Guarded("PUT", "/api/products/:id", {"admin", "warehouse", "owner"}, "updateProduct"),
      Guarded("POST", "/api/customers", {"admin", "cashier", "owner"}, "createCustomer"),
      Guarded("PUT", "/api/customers/:id", {"admin", "cashier", "owner"}, "updateCustomer"),
      Guarded("POST", "/api/vendors", {"admin", "warehouse", "owner"}, "createVendor"),
      Guarded("PUT", "/api/vendors/:id", {"admin", "warehouse", "owner"}, "updateVendor"),
      Guarded("POST", "/api/purchase-orders", {"admin", "warehouse", "owner"}, "createPurchaseOrder"),
      Guarded("PUT", "/api/purchase-orders/:id/status", {"admin", "warehouse", "owner"}, "updatePurchaseOrderStatus"),
      Guarded("POST", "/api/sales-orders", {"admin", "cashier", "owner"}, "createSalesOrder"),
      Guarded("PUT", "/api/sales-orders/:id/status", {"admin", "cashier", "owner"}, "updateSalesOrderStatus"),
      Guarded("POST", "/api/returns", {"admin", "cashier", "warehouse", "owner"}, "createProductReturn"),
      Guarded("PUT", "/api/returns/:id/status", {"admin", "warehouse", "owner"}, "updateProductReturnStatus") }

\* (mutant) the delete routes with the cashier let in on the sales orders
DeleteRoutesCashier ==
    { Guarded("DELETE", "/api/categories/:id", {"admin", "owner"}, "deleteCategory"),
      Guarded("DELETE", "/api/products/:id", {"admin", "owner"}, "deleteProduct"),
      Guarded("DELETE", "/api/customers/:id", {"admin", "owner"}, "deleteCustomer"),
      Guarded("DELETE", "/api/vendors/:id", {"admin", "owner"}, "deleteVendor"),
      Guarded("DELETE", "/api/purchase-orders/:id", {"admin", "owner"}, "deletePurchaseOrder"),
      Guarded("DELETE", "/api/sales-orders/:id", {"admin", "cashier", "owner"}, "deleteSalesOrder"),
      Guarded("DELETE", "/api/returns/:id", {"admin", "owner"}, "deleteProductReturn") }

DeleteRoutes ==
    { Guarded("DELETE", "/api/categories/:id", {"admin", "owner"}, "deleteCategory"),
      Guarded("DELETE", "/api/products/:id", {"admin", "owner"}, "deleteProduct"),
      Guarded("DELETE", "/api/customers/:id", {"admin", "owner"}, "deleteCustomer"),
      Guarded("DELETE", "/api/vendors/:id", {"admin", "owner"}, "deleteVendor"),
      Guarded("DELETE", "/api/purchase-orders/:id", {"admin", "owner"}, "deletePurchaseOrder"),
      Guarded("DELETE", "/api/sales-orders/:id", {"admin", "owner"}, "deleteSalesOrder"),
      Guarded("DELETE", "/api/returns/:id", {"admin", "owner"}, "deleteProductReturn") }

Routes == GetRoutes \cup WriteRoutes \cup DeleteRoutes

\* the order kind a handler works on
KindOf(handler) ==
    CASE handler \in {"createPurchaseOrder", "updatePurchaseOrderStatus",
                      "deletePurchaseOrder", "getPurchaseOrderDetails"} -> "PO"
      [] handler \in {"createSalesOrder", "updateSalesOrderStatus",
                      "deleteSalesOrder", "getSalesOrderDetails"} -> "SO"
      [] OTHER -> "RET"

\* what a request carries besides its user: the :id of the path and the body
RequestIds == {1}

RequestParams(route) ==
    LET h == route.handler
    IN  CASE h \in {"createPurchaseOrder", "createSalesOrder", "createProductReturn"} ->
                [id : {0},
                 body : {input \in OrderInputs(InitDb, KindOf(h)) :
                            input.party \in Parties /\ input.date = today},
                 items : {<<Item(1, 1)>>}]
          [] h \in {"updatePurchaseOrderStatus", "updateSalesOrderStatus",
                    "updateProductReturnStatus"} ->
                [id : RequestIds, body : [status : {"partial"}], items : {<<>>}]
          [] h \in {"createProduct", "updateProduct"} ->
                [id : RequestIds,
                 body : [categoryId : Categories, stock : {InitStock},
                         costPrice : {InitCostPrice}],
                 items : {<<>>}]
          [] h \in {"list", "createCategory", "createCustomer", "createVendor"} ->
                [id : {0}, body : {None}, items : {<<>>}]
          [] OTHER -> [id : RequestIds, body : {None}, items : {<<>>}]

\* res.status(...) of the handler, and the database it leaves
Answer(status, d) == [status |-> status, db |-> d]

\* the handler of a route: try { storage call; answer } catch { next(error) }
Handle(route, d, p) ==
    LET h == route.handler
    IN  CASE h = "list" -> Answer(200, d)
          [] h = "getProductById" ->
                Answer(IF p.id \in DOMAIN d.products THEN 200 ELSE 404, d)
          [] h = "getCustomerById" -> Answer(IF p.id \in d.customers THEN 200 ELSE 404, d)
          [] h = "getVendorById" -> Answer(IF p.id \in d.vendors THEN 200 ELSE 404, d)
          [] h \in {"getPurchaseOrderDetails", "getSalesOrderDetails", "getProductReturnDetails"} ->
                Answer(IF \E r \in d.orders[KindOf(h)] : r.id = p.id THEN 200 ELSE 404, d)
          [] h = "createCategory" -> Answer(201, createRecord(d, "categories").db)
          [] h = "createCustomer" -> Answer(201, createRecord(d, "customers").db)
          [] h = "createVendor" -> Answer(201, createRecord(d, "vendors").db)
          [] h = "createProduct" ->
                LET r == createProduct(d, p.body)
                IN  Answer(IF r.ok THEN 201 ELSE 500, r.db)
          [] h \in {"updateCategory", "updateCustomer", "updateVendor"} -> Answer(200, d)
          [] h = "updateProduct" ->
                LET r == updateProduct(d, p.id, p.body)
                IN  Answer(IF r.found THEN 200 ELSE 500, r.db)
          [] h = "deleteCategory" ->
                LET r == deleteCategory(d, p.id) IN Answer(IF r.ok THEN 204 ELSE 500, r.db)
          [] h = "deleteProduct" ->
                LET r == deleteProduct(d, p.id) IN Answer(IF r.ok THEN 204 ELSE 500, r.db)
          [] h = "deleteCustomer" ->
                LET r == deleteCustomer(d, p.id) IN Answer(IF r.ok THEN 204 ELSE 500, r.db)
          [] h = "deleteVendor" ->
                LET r == deleteVendor(d, p.id) IN Answer(IF r.ok THEN 204 ELSE 500, r.db)
          [] h \in {"createPurchaseOrder", "createSalesOrder", "createProductReturn"} ->
                LET r == createOrder(d, KindOf(h), today, p.body, p.items)
                IN  Answer(IF r.ok THEN 201 ELSE 500, r.db)
          [] h \in {"updatePurchaseOrderStatus", "updateSalesOrderStatus",
                    "updateProductReturnStatus"} ->
                LET r == updateOrderStatus(d, KindOf(h), p.id, p.body.status)
                IN  Answer(IF r.ok THEN 200 ELSE 500, r.db)
          [] h \in {"deletePurchaseOrder", "deleteSalesOrder", "deleteProductReturn"} ->
                LET r == deleteOrder(d, KindOf(h), p.id)
                IN  Answer(IF r.ok THEN 204 ELSE 500, r.db)

\* the handlers that insert a row
Inserts(route) == route.method = "POST"

\* the database the requests start from: the initial rows, product 2 deleted
InitDbRoutes == deleteProduct(InitDb, 2).db

InitRoutes ==
    /\ db = InitDbRoutes
    /\ today = 1
    /\ last = NoCall
    /\ calls = <<>>
    /\ req = None
    /\ out = None

\* one request: the gate of the route if it has one, then its handler.
\* req keeps the method and the gate of the route, the user, and the answer.
Request(route, user, p) ==
    LET gate == IF route.guarded THEN checkRole(route.roles, user)
                ELSE [next |-> TRUE, status |-> 200]
        answer == IF gate.next THEN Handle(route, db, p) ELSE Answer(gate.status, db)
    IN  /\ (gate.next /\ Inserts(route)) => Created(db) < MaxPosts
        /\ db' = answer.db
        /\ req' = [method |-> route.method, guarded |-> route.guarded, roles |-> route.roles,
                   user |-> user, status |-> answer.status, ran |-> gate.next]
        /\ out' = None
        /\ UNCHANGED <<today, last, calls>>

NextRoutes ==
    \E route \in Routes : \E user \in Users : \E p \in RequestParams(route) :
        Request(route, user, p)

SpecRoutes == InitRoutes /\ [][NextRoutes]_vars

----------------------------------------------------------------------------
(* Reports: getAccountsPayable, getAccountsReceivable.  Money is counted   *)
(* in halves of the currency unit, so that totalAmount * 0.5 is a whole    *)
(* number of them; the amounts that clients send are whole units.          *)

NoDate == 0                  \* startDate / endDate undefined

\* the conditions given to .where()
StatusIn(statuses) == [cond |-> "inArray", statuses |-> statuses, date |-> NoDate]
DateGte(date) == [cond |-> "gte", statuses |-> {}, date |-> date]
DateLte(date) == [cond |-> "lte", statuses |-> {}, date |-> date]

Matches(r, where) ==
    CASE where.cond = "inArray" -> r.status \in where.statuses
      [] where.cond = "gte" -> r.date >= where.date
      [] where.cond = "lte" -> r.date <= where.date

\* query.where(condition): the builder keeps the condition of its last call
Where(query, condition) == [query EXCEPT !.where = condition]

\* the query of a report: from the order table, where the status is outstanding,
\* then .where(gte(date, startDate)) and .where(lte(date, endDate)) when given
ReportQuery(kind, statuses, startDate, endDate) ==
    LET q0 == [from |-> kind, where |-> StatusIn(statuses)]
        q1 == IF startDate # NoDate THEN Where(q0, DateGte(startDate)) ELSE q0
        q2 == IF endDate # NoDate THEN Where(q1, DateLte(endDate)) ELSE q1
    IN  q2

Execute(d, query) == {r \in d.orders[query.from] : Matches(r, query.where)}

\* item.totalAmount * 0.5
Half(amount) == amount \div 2

\* (mutant) the remaining amount without the partial-payment rule
RemainingAmountFull(item) == item.totalAmount

\* let remainingAmount = item.totalAmount; if (item.status === 'partial') ... * 0.5
RemainingAmount(item) ==
    IF item.status = "partial" THEN Half(item.totalAmount) ELSE item.totalAmount

\* an instant is counted in hours since the start of day 0 (UTC); the clock of
\* the server and the date strings of the database are both read in UTC
HoursPerDay == 24

\* Date.getTime() of the instant at an hour of a day
GetTime(day, hour) == day * HoursPerDay + hour

\* new Date('yyyy-MM-dd'): the start of the day
ParseDate(day) == GetTime(day, 0)

Max(a, b) == IF a >= b THEN a ELSE b

\* (mutant) the age without Math.max(0, ...)
AgeDaysSigned(item, now) ==
    LET dueDate == IF item.dueDate # NULL THEN ParseDate(item.dueDate) ELSE now
    IN  (now - dueDate) \div HoursPerDay

\* const dueDate = item.dueDate ? new Date(item.dueDate) : today;
\* Math.max(0, Math.floor((today.getTime() - dueDate.getTime()) / (1000 * 60 * 60 * 24)))
AgeDays(item, now) ==
    LET dueDate == IF item.dueDate # NULL THEN ParseDate(item.dueDate) ELSE now
    IN  Max(0, (now - dueDate) \div HoursPerDay)

\* results.map(item => ({ ...item, remainingAmount, ageDays }))
ReportRow(item, now) ==
    [ id |-> item.id, orderNumber |-> item.orderNumber, date |-> item.date,
      party |-> item.party, totalAmount |-> item.totalAmount, dueDate |-> item.dueDate,
      status |-> item.status,
      remainingAmount |-> RemainingAmount(item), ageDays |-> AgeDays(item, now) ]

getAccountsPayable(d, now, startDate, endDate) ==
    {ReportRow(item, now) :
        item \in Execute(d, ReportQuery("PO", {"pending", "partial"}, startDate, endDate))}

getAccountsReceivable(d, now, startDate, endDate) ==
    {ReportRow(item, now) :
        item \in Execute(d, ReportQuery("SO", {"unpaid", "partial"}, startDate, endDate))}

\* the hours of the day at which a report is asked for
Hours == {0, 23}

\* the amounts of the orders of the report runs: 5 and 15 units
Amounts == {10, 30}

\* orders as the report runs create them: any status of the enum, no items
ReportInputs(kind) ==
    [ party : Parties, date : Dates, totalAmount : Amounts,
      status : StatusEnum(kind), dueDate : {NULL}, salesOrderId : {NULL} ]

\* updatePurchaseOrderStatus, updateSalesOrderStatus, updateProductReturnStatus
UpdateOrderStatus(kind, id, status) ==
    /\ db' = updateOrderStatus(db, kind, id, status).db
    /\ last' = NoCall
    /\ out' = None
    /\ UNCHANGED <<today, calls, req>>

\* createPurchaseOrder / createSalesOrder without items, its outcome not kept
AddOrder(kind, input) ==
    /\ Created(db) < MaxCreates
    /\ db' = createOrder(db, kind, today, input, <<>>).db
    /\ last' = NoCall
    /\ out' = None
    /\ UNCHANGED <<today, calls, req>>

GetAccountsPayable(startDate, endDate) ==
    /\ \E hour \in Hours :
          out' = [report |-> "payable", startDate |-> startDate, endDate |-> endDate,
                  rows |-> getAccountsPayable(db, GetTime(today, hour), startDate, endDate)]
    /\ UNCHANGED <<db, today, last, calls, req>>

GetAccountsReceivable(startDate, endDate) ==
    /\ \E hour \in Hours :
          out' = [report |-> "receivable", startDate |-> startDate, endDate |-> endDate,
                  rows |-> getAccountsReceivable(db, GetTime(today, hour), startDate, endDate)]
    /\ UNCHANGED <<db, today, last, calls, req>>

NextReports ==
    \/ \E kind \in {"PO", "SO"} : \E input \in ReportInputs(kind) : AddOrder(kind, input)
    \/ \E kind \in {"PO", "SO"} : \E id \in 1..db.seq[kind] : \E status \in StatusEnum(kind) :
          UpdateOrderStatus(kind, id, status)
    \/ \E startDate \in {NoDate} \cup Dates : \E endDate \in {NoDate} \cup Dates :
          GetAccountsPayable(startDate, endDate)
    \/ \E startDate \in {NoDate} \cup Dates : \E endDate \in {NoDate} \cup Dates :
          GetAccountsReceivable(startDate, endDate)

SpecReports == Init /\ [][NextReports]_vars

----------------------------------------------------------------------------
(* The age of the payables and receivables, as the days go by *)

AgingDays == {1, 2, 3, 4}

\* outstanding orders dated on the first day, due on some day or without a due date
AgingInputs(kind) ==
    [ party : Parties, date : {1}, totalAmount : {10},
      status : {DefaultStatus(kind)}, dueDate : {NULL} \cup AgingDays, salesOrderId : {NULL} ]

\* midnight
NextDay ==
    /\ today + 1 \in AgingDays
    /\ today' = today + 1
    /\ last' = NoCall
    /\ out' = None
    /\ UNCHANGED <<db, calls, req>>

NextAging ==
    \/ \E kind \in {"PO", "SO"} : \E input \in AgingInputs(kind) : AddOrder(kind, input)
    \/ NextDay
    \/ GetAccountsPayable(NoDate, NoDate)
    \/ GetAccountsReceivable(NoDate, NoDate)

SpecAging == Init /\ [][NextAging]_vars

----------------------------------------------------------------------------
(* Ledger: getMonthlySalesReport, getProfitLossReport, getDashboardStats   *)

\* the result of SUM(...): NULL over no rows
SqlNull == [isNull |-> TRUE, value |-> 0]

\* the sum of value[r] over the rows r
RECURSIVE SumOf(_, _)
SumOf(rows, value) ==
    IF rows = {} THEN 0
    ELSE LET r == CHOOSE x \in rows : TRUE
         IN  value[r] + SumOf(rows \ {r}, value)

SqlSum(rows, value) ==
    IF rows = {} THEN SqlNull ELSE [isNull |-> FALSE, value |-> SumOf(rows, value)]

\* result[0]?.total || 0
OrZero(v) == IF v.isNull \/ v.value = 0 THEN 0 ELSE v.value

\* SUM(total_amount) over rows of an order table
SumTotalAmount(rows) == SqlSum(rows, [r \in rows |-> r.totalAmount])

\* (mutant) the month's range ends at the first day of the month
MonthEndsAtFirstDay(year, month) == NewDate(year, month - 1, 1)

\* const endDate = new Date(year, month, 0, 23, 59, 59, 999), compared with a date
MonthEnd(year, month) == NewDate(year, month, 0)

\* and(gte(date, startDate), lte(date, endDate)) for the month of a year
InMonth(r, year, month) ==
    r.date >= NewDate(year, month - 1, 1) /\ r.date <= MonthEnd(year, month)

\* for (let month = 1; month <= 12; month++) monthlySales.push({ month, total })
getMonthlySalesReport(d, year) ==
    [i \in 1..12 |->
        [month |-> i,
         total |-> OrZero(SumTotalAmount({r \in d.orders["SO"] : InMonth(r, year, i)}))]]

\* (mutant) the cost of an item without its quantity
ItemCostPerRow(d, item) ==
    IF item.productId \in DOMAIN d.products THEN d.products[item.productId].costPrice ELSE 0

\* if (product) itemCost = product.costPrice * item.quantity
ItemCost(d, item) ==
    IF item.productId \in DOMAIN d.products
    THEN d.products[item.productId].costPrice * item.quantity
    ELSE 0

getProfitLossReport(d, month, year) ==
    LET totalSales == OrZero(SumTotalAmount({r \in d.orders["SO"] : InMonth(r, year, month)}))
        salesItems == {i \in d.items["SO"] :
                          \E r \in d.orders["SO"] : r.id = i.orderId /\ InMonth(r, year, month)}
        totalCogs == SumOf(salesItems, [item \in salesItems |-> ItemCost(d, item)])
        grossProfit == totalSales - totalCogs
        totalReturns == OrZero(SumTotalAmount({r \in d.orders["RET"] : InMonth(r, year, month)}))
        netProfit == grossProfit - totalReturns
    IN  [month |-> month, year |-> year, totalSales |-> totalSales, totalCogs |-> totalCogs,
         grossProfit |-> grossProfit, totalReturns |-> totalReturns, netProfit |-> netProfit]

\* (mutant) the dashboard counts a partial order at its full amount
OutstandingCaseFull(r, open) == IF r.status \in {open, "partial"} THEN r.totalAmount ELSE 0

\* CASE WHEN status = open THEN total_amount WHEN status = 'partial'
\* THEN total_amount * 0.5 ELSE 0 END
OutstandingCase(r, open) ==
    IF r.status = open THEN r.totalAmount
    ELSE IF r.status = "partial" THEN Half(r.totalAmount) ELSE 0

\* the sales, payables, receivables and profit of getDashboardStats
getDashboardStats(d, day) ==
    LET currentMonth == YMD(day).m
        currentYear == YMD(day).y
        payables == {r \in d.orders["PO"] : r.status \in {"pending", "partial"}}
        receivables == {r \in d.orders["SO"] : r.status \in {"unpaid", "partial"}}
        profitLoss == getProfitLossReport(d, currentMonth, currentYear)
    IN  [ totalMonthlySales |->
              OrZero(SumTotalAmount({r \in d.orders["SO"] :
                                        InMonth(r, currentYear, currentMonth)})),
          totalPayables |->
              OrZero(SqlSum(payables, [r \in payables |-> OutstandingCase(r, "pending")])),
          totalReceivables |->
              OrZero(SqlSum(receivables, [r \in receivables |-> OutstandingCase(r, "unpaid")])),
          monthlyProfit |-> profitLoss.netProfit ]

\* 31 January, 1 February and 31 December of EpochYear, 1 January of the next year
LedgerDates == {31, 32, 366, 367}

LedgerYears == {EpochYear, EpochYear + 1}

\* the purchase orders, sales orders and returns of the ledger runs
LedgerOrders ==
    [kind : {"PO"}, items : {<<>>},
     input : [party : Parties, date : {31}, totalAmount : {10},
              status : {"pending", "partial", "completed"}, dueDate : {NULL},
              salesOrderId : {NULL}]]
    \cup
    [kind : {"SO"}, items : {<<Item(1, 1)>>},
     input : [party : Parties, date : LedgerDates, totalAmount : {10},
              status : paymentStatusEnum, dueDate : {NULL}, salesOrderId : {NULL}]]
    \cup
    [kind : {"SO"}, items : {<<Item(2, 1), Item(1, 2)>>},
     input : [party : Parties, date : LedgerDates, totalAmount : {30},
              status : {"unpaid"}, dueDate : {NULL}, salesOrderId : {NULL}]]
    \cup
    [kind : {"RET"}, items : {<<>>},
     input : [party : Parties, date : LedgerDates, totalAmount : {6},
              status : {"pending"}, dueDate : {NULL}, salesOrderId : {NULL}]]

InitLedger ==
    /\ db = InitDb
    /\ today \in {31, 366}
    /\ last = NoCall
    /\ calls = <<>>
    /\ req = None
    /\ out = None

\* createPurchaseOrder / createSalesOrder / createProductReturn, its outcome not kept
BookOrder(o) ==
    /\ Created(db) < MaxCreates
    /\ db' = createOrder(db, o.kind, today, o.input, o.items).db
    /\ last' = NoCall
    /\ out' = None
    /\ UNCHANGED <<today, calls, req>>

\* updateProduct(id, { costPrice })
UpdateCostPrice(id, costPrice) ==
    /\ db.products[id].costPrice # costPrice
    /\ db' = updateProduct(db, id, [stock |-> db.products[id].stock, costPrice |-> costPrice]).db
    /\ last' = NoCall
    /\ out' = None
    /\ UNCHANGED <<today, calls, req>>

GetMonthlySalesReport(year) ==
    /\ out' = [report |-> "monthly", year |-> year, rows |-> getMonthlySalesReport(db, year)]
    /\ UNCHANGED <<db, today, last, calls, req>>

GetProfitLossReport(month, year) ==
    /\ out' = [report |-> "profitLoss", rows |-> getProfitLossReport(db, month, year)]
    /\ UNCHANGED <<db, today, last, calls, req>>

GetDashboardStats ==
    /\ out' = [report |-> "dashboard", rows |-> getDashboardStats(db, today)]
    /\ UNCHANGED <<db, today, last, calls, req>>

NextLedger ==
    \/ \E o \in LedgerOrders : BookOrder(o)
    \/ \E costPrice \in {InitCostPrice, InitCostPrice + 2} : UpdateCostPrice(1, costPrice)
    \/ \E year \in LedgerYears : GetMonthlySalesReport(year)
    \/ \E month \in {1, 2, 12} : \E year \in LedgerYears : GetProfitLossReport(month, year)
    \/ GetDashboardStats

SpecLedger == InitLedger /\ [][NextLedger]_vars

----------------------------------------------------------------------------
(* updateProductStock: a select, a test of the new stock, an update *)

MaxStock == 5        \* calls that would take a stock above MaxStock are not made

\* const [product] = await db.select().from(products).where(eq(products.id, id))
SelectProduct(d, id) ==
    IF id \in DOMAIN d.products THEN [found |-> TRUE, stock |-> d.products[id].stock]
    ELSE [found |-> FALSE, stock |-> 0]

ProductNotFound == "Product not found"
BelowZero == "Cannot reduce stock below zero"

\* (mutant) the test of the new stock left out
CheckStockNever(product, quantityChange) ==
    IF ~product.found THEN [ok |-> FALSE, error |-> ProductNotFound, newStock |-> 0]
    ELSE [ok |-> TRUE, error |-> "", newStock |-> product.stock + quantityChange]

\* if (!product) throw ...; newStock = product.stock + quantityChange;
\* if (newStock < 0) throw ...
CheckStock(product, quantityChange) ==
    IF ~product.found THEN [ok |-> FALSE, error |-> ProductNotFound, newStock |-> 0]
    ELSE LET newStock == product.stock + quantityChange
         IN  IF newStock < 0 THEN [ok |-> FALSE, error |-> BelowZero, newStock |-> newStock]
             ELSE [ok |-> TRUE, error |-> "", newStock |-> newStock]

\* update products set stock = newStock where id = id returning *
SetStock(d, id, newStock) ==
    IF id \in DOMAIN d.products THEN [d EXCEPT !.products[id].stock = newStock] ELSE d

\* the call run alone: what it throws or returns, and the database it leaves
updateProductStock(d, id, quantityChange) ==
    LET product == SelectProduct(d, id)
        check == CheckStock(product, quantityChange)
    IN  IF ~check.ok THEN [ok |-> FALSE, error |-> check.error, db |-> d, product |-> None]
        ELSE LET e == SetStock(d, id, check.newStock)
             IN  [ok |-> TRUE, error |-> "", db |-> e, product |-> e.products[id]]

QuantityChanges == {-2, -1, 1, 2}

UpdateProductStock(id, quantityChange) ==
    /\ id \in DOMAIN db.products => db.products[id].stock + quantityChange <= MaxStock
    /\ LET res == updateProductStock(db, id, quantityChange)
       IN  /\ db' = res.db
           /\ last' = [op |-> "updateProductStock", id |-> id, quantityChange |-> quantityChange,
                       ok |-> res.ok, error |-> res.error, product |-> res.product,
                       base |-> db]
    /\ out' = None
    /\ UNCHANGED <<today, calls, req>>

NextStock ==
    \E id \in Products \cup {MissingProduct} : \E quantityChange \in QuantityChanges :
        UpdateProductStock(id, quantityChange)

SpecStock == Init /\ [][NextStock]_vars

\* concurrent calls: a call awaits its select, then awaits its update; other
\* calls run between the two
ReadStock(c, id, quantityChange) ==
    /\ calls[c].pc = "start"
    /\ LET check == CheckStock(SelectProduct(db, id), quantityChange)
       IN  calls' = [calls EXCEPT ![c] =
                        [pc |-> IF check.ok THEN "selected" ELSE "threw", id |-> id,
                         quantityChange |-> quantityChange, newStock |-> check.newStock,
                         error |-> check.error]]
    /\ UNCHANGED <<db, today, last, req, out>>

WriteStock(c) ==
    /\ calls[c].pc = "selected"
    /\ db' = SetStock(db, calls[c].id, calls[c].newStock)
    /\ calls' = [calls EXCEPT ![c].pc = "returned"]
    /\ UNCHANGED <<today, last, req, out>>

NextStockConc ==
    \/ \E c \in CallIds : \E id \in Products \cup {MissingProduct} :
          \E quantityChange \in QuantityChanges : ReadStock(c, id, quantityChange)
    \/ \E c \in CallIds : WriteStock(c)

SpecStockConc == InitConc /\ [][NextStockConc]_vars

----------------------------------------------------------------------------
(* Status updates among orders that have items *)

\* one order of each kind, with two items
StatusOrders ==
    UNION {[kind : {k}, items : {<<Item(2, 1), Item(1, 2)>>}, input : SameDayInputs(k)] :
              k \in Kinds}

\* the status values a client sends: the values of the three enums
StatusValues == purchaseStatusEnum \cup paymentStatusEnum \cup returnStatusEnum

SetOrderStatus(kind, id, status) ==
    /\ LET res == updateOrderStatus(db, kind, id, status)
       IN  /\ db' = res.db
           /\ last' = [op |-> "status", kind |-> kind, id |-> id, status |-> status,
                       ok |-> res.ok]
    /\ out' = None
    /\ UNCHANGED <<today, calls, req>>

NextStatus ==
    \/ \E o \in StatusOrders : BookOrder(o)
    \/ \E kind \in Kinds : \E id \in 1..(db.seq[kind] + 1) : \E status \in StatusValues :
          SetOrderStatus(kind, id, status)

SpecStatus == Init /\ [][NextStatus]_vars

----------------------------------------------------------------------------
(* getRecentTransactions *)

MaxTransactions == 3     \* at most MaxTransactions orders are created in the runs below

Min(a, b) == IF a <= b THEN a ELSE b

\* type: sql`'sale'`, `'purchase'`, `'return'`
TypeOf(kind) ==
    CASE kind = "SO" -> "sale"
      [] kind = "PO" -> "purchase"
      [] kind = "RET" -> "return"

\* the columns selected from an order row
TransactionRow(kind, r) ==
    [ id |-> r.id, transactionId |-> r.orderNumber, date |-> r.date,
      type |-> TypeOf(kind), amount |-> r.totalAmount, status |-> r.status ]

\* .orderBy(desc(date)).limit(limit): the results the database may give; the
\* order among rows of one date is not determined
OrderByDateDescLimit(rows, limit) ==
    LET k == Min(limit, Cardinality(rows))
    IN  {s \in [1..k -> rows] :
            /\ \A i, j \in 1..k : i < j => (s[i] # s[j] /\ s[i].date >= s[j].date)
            /\ \A r \in rows : (\A i \in 1..k : s[i] # r) => \A i \in 1..k : r.date <= s[i].date}

\* x put into a list sorted from newest to oldest, after the entries that are
\* not older than x
InsertByDate(sorted, x) ==
    LET n == Cardinality({i \in 1..Len(sorted) : sorted[i].date >= x.date})
    IN  SubSeq(sorted, 1, n) \o <<x>> \o SubSeq(sorted, n + 1, Len(sorted))

\* (mutant) the merged list left as it is
SortUnsorted(s) == s

\* .sort((a, b) => new Date(b.date).getTime() - new Date(a.date).getTime()):
\* newest first, entries of one date in the order they had
RECURSIVE SortByDateDesc(_)
SortByDateDesc(s) ==
    IF s = <<>> THEN <<>>
    ELSE InsertByDate(SortByDateDesc(SubSeq(s, 1, Len(s) - 1)), s[Len(s)])

\* .slice(0, limit)
Slice(s, limit) == SubSeq(s, 1, Min(limit, Len(s)))

\* the results the call may return
getRecentTransactions(d, limit) ==
    LET Recent(kind) ==
            OrderByDateDescLimit({TransactionRow(kind, r) : r \in d.orders[kind]}, limit)
    IN  {Slice(SortByDateDesc(recentSales \o recentPurchases \o recentReturns), limit) :
            recentSales \in Recent("SO"), recentPurchases \in Recent("PO"),
            recentReturns \in Recent("RET")}

\* the limits asked for; 5 is the default of the method and of the route
Limits == {0, 1, 2, 5}

\* orders of the three kinds, dated on one of three days
RecentOrders ==
    UNION {[kind : {k}, items : {<<>>},
            input : [party : Parties, date : {1, 2, 3}, totalAmount : {10},
                     status : {DefaultStatus(k)}, dueDate : {NULL}, salesOrderId : {NULL}]] :
              k \in Kinds}

BookTransaction(o) ==
    /\ Created(db) < MaxTransactions
    /\ db' = createOrder(db, o.kind, today, o.input, o.items).db
    /\ last' = NoCall
    /\ out' = None
    /\ UNCHANGED <<today, calls, req>>

GetRecentTransactions(limit) ==
    /\ \E rows \in getRecentTransactions(db, limit) :
          out' = [report |-> "recent", limit |-> limit, rows |-> rows]
    /\ UNCHANGED <<db, today, last, calls, req>>

NextRecent ==
    \/ \E o \in RecentOrders : BookTransaction(o)
    \/ \E limit \in Limits : GetRecentTransactions(limit)

SpecRecent == Init /\ [][NextRecent]_vars

----------------------------------------------------------------------------
(* generatePDF: the layout cursor y and the pages.  Lengths are counted in *)
(* hundredths of a point.                                                  *)

MaxRows == 33            \* the most item rows / report rows of a document

PageHeight == 84189      \* pdfDoc.addPage([595.28, 841.89])
TitleOffset == 5000      \* y: height - 50
CompanyOffset == 8000    \* y: height - 80
DateOffset == 10000      \* y: height - 100
ContentOffset == 13000   \* let y = height - 130
LineHeight == 2000       \* y -= 20
HeaderGap == 4000        \* y -= 40
PageBreak == 10000       \* if (y < 100)
FooterY == 5000          \* y: 50

PdfTypes == {"invoice", "receipt", "report"}

\* page.drawText(...): what is drawn, on which page, at which y, and the number
\* of pages the document has at that moment
Draw(what, index, page, y, pages) ==
    [what |-> what, index |-> index, page |-> page, y |-> y, pages |-> pages]

\* the title, the company line and the date line
TitleBlock(page) ==
    { Draw("title", 0, page, PageHeight - TitleOffset, 1),
      Draw("company", 0, page, PageHeight - CompanyOffset, 1),
      Draw("date", 0, page, PageHeight - DateOffset, 1) }

\* the entity, document number and date lines and the table header of an
\* invoice or receipt
DocumentHead(page, y) ==
    { Draw("entity", 0, page, y, 1),
      Draw("documentNumber", 0, page, y - LineHeight, 1),
      Draw("documentDate", 0, page, y - 2 * LineHeight, 1),
      Draw("header", 0, page, y - 2 * LineHeight - HeaderGap, 1) }

\* the document when the loop over the rows starts: page is the page added
\* first, and stays that page
StartDocument(type, rows) ==
    LET page == 1
        y == PageHeight - ContentOffset
    IN  IF type \in {"invoice", "receipt"}
        THEN [report |-> "pdf", type |-> type, stage |-> "rows", page |-> page, pages |-> 1,
              y |-> y - 2 * LineHeight - HeaderGap - LineHeight,
              todo |-> rows, done |-> 0,
              draws |-> TitleBlock(page) \cup DocumentHead(page, y)]
        ELSE [report |-> "pdf", type |-> type, stage |-> "rows", page |-> page, pages |-> 1,
              y |-> y, todo |-> rows, done |-> 0, draws |-> TitleBlock(page)]

\* (mutant) the loop body without the page break
DrawRowNoBreak(doc) ==
    [doc EXCEPT !.draws = @ \cup {Draw("row", doc.done + 1, doc.page, doc.y, doc.pages)},
                !.todo = @ - 1, !.done = @ + 1,
                !.y = @ - LineHeight]

\* one turn of the loop: draw the row on page at y; y -= 20;
\* if (y < 100) { newPage = pdfDoc.addPage(...); y = newPage height - 50 }
DrawRow(doc) ==
    LET y == doc.y - LineHeight
        break == y < PageBreak
    IN  [doc EXCEPT !.draws = @ \cup {Draw("row", doc.done + 1, doc.page, doc.y, doc.pages)},
                    !.todo = @ - 1, !.done = @ + 1,
                    !.pages = IF break THEN @ + 1 ELSE @,
                    !.y = IF break THEN PageHeight - TitleOffset ELSE y]

\* after the loop: the total line of an invoice or receipt, then the footer
FinishDocument(doc) ==
    LET footer == Draw("footer", 0, doc.page, FooterY, doc.pages)
    IN  IF doc.type \in {"invoice", "receipt"}
        THEN [doc EXCEPT !.stage = "saved", !.y = @ - LineHeight,
                         !.draws = @ \cup {Draw("total", 0, doc.page, doc.y - LineHeight, doc.pages),
                                           footer}]
        ELSE [doc EXCEPT !.stage = "saved", !.draws = @ \cup {footer}]

Drawing == out # None /\ out.report = "pdf"

GeneratePDF(type, rows) ==
    /\ IF Drawing THEN out.stage = "saved" ELSE TRUE
    /\ out' = StartDocument(type, rows)
    /\ UNCHANGED <<db, today, last, calls, req>>

NextRow ==
    /\ Drawing /\ out.stage = "rows" /\ out.todo > 0
    /\ out' = DrawRow(out)
    /\ UNCHANGED <<db, today, last, calls, req>>

SavePDF ==
    /\ Drawing /\ out.stage = "rows" /\ out.todo = 0
    /\ out' = FinishDocument(out)
    /\ UNCHANGED <<db, today, last, calls, req>>

NextPdf ==
    \/ \E type \in PdfTypes : \E rows \in 0..MaxRows : GeneratePDF(type, rows)
    \/ NextRow
    \/ SavePDF

SpecPdf == Init /\ [][NextPdf]_vars

----------------------------------------------------------------------------
(* GET /api/export/report/:type *)

\* the types the report pages of the client put into the export URL
PageReportTypes ==
    {"inventory", "accounts-payable", "accounts-receivable", "sales", "profit-loss"}

\* the types a request may carry: those of the pages, and one that no page uses
ReportTypes == PageReportTypes \cup {"users"}

\* getInventoryReport: one row per product, totalValue = stock * costPrice
getInventoryReport(d) ==
    {[id |-> p, stock |-> d.products[p].stock, costPrice |-> d.products[p].costPrice,
      totalValue |-> d.products[p].stock * d.products[p].costPrice] :
        p \in DOMAIN d.products}

\* res.send(pdf) of a report with a title, a heading row, a rule and the data rows
PdfAnswer(title, reportData) ==
    [status |-> 200, message |-> "", pdf |-> TRUE, title |-> title,
     rows |-> 2 + Cardinality(reportData)]

InvalidReportType ==
    [status |-> 400, message |-> "Invalid report type", pdf |-> FALSE, title |-> "", rows |-> 0]

\* (mutant) a handler that also knows the type sales
exportReportWithSales(d, now, type) ==
    CASE type = "inventory" -> PdfAnswer("INVENTORY REPORT", getInventoryReport(d))
      [] type = "accounts-payable" ->
            PdfAnswer("ACCOUNTS PAYABLE REPORT", getAccountsPayable(d, now, NoDate, NoDate))
      [] type = "accounts-receivable" ->
            PdfAnswer("ACCOUNTS RECEIVABLE REPORT", getAccountsReceivable(d, now, NoDate, NoDate))
      [] type = "sales" -> PdfAnswer("SALES REPORT", d.orders["SO"])
      [] OTHER -> InvalidReportType

\* switch (type) { case ...: rows = ...; break; default: return res.status(400)... }
\* then generatePDF("report", { title, rows }) and res.send
exportReport(d, now, type) ==
    CASE type = "inventory" -> PdfAnswer("INVENTORY REPORT", getInventoryReport(d))
      [] type = "accounts-payable" ->
            PdfAnswer("ACCOUNTS PAYABLE REPORT", getAccountsPayable(d, now, NoDate, NoDate))
      [] type = "accounts-receivable" ->
            PdfAnswer("ACCOUNTS RECEIVABLE REPORT", getAccountsReceivable(d, now, NoDate, NoDate))
      [] OTHER -> InvalidReportType

\* a request to the route: checkRole(["admin", "owner"]), then the handler
ExportReport(user, type) ==
    /\ LET roles == {"admin", "owner"}
           gate == checkRole(roles, user)
           answer == IF gate.next THEN exportReport(db, GetTime(today, 0), type)
                     ELSE [status |-> gate.status, message |-> "", pdf |-> FALSE,
                           title |-> "", rows |-> 0]
       IN  req' = [method |-> "GET", guarded |-> TRUE, roles |-> roles, user |-> user,
                   status |-> answer.status, ran |-> gate.next, type |-> type,
                   message |-> answer.message, pdf |-> answer.pdf, title |-> answer.title,
                   rows |-> answer.rows]
    /\ UNCHANGED <<db, today, last, calls, out>>

NextExport ==
    \/ \E kind \in {"PO", "SO"} : \E input \in AgingInputs(kind) : AddOrder(kind, input)
    \/ \E user \in Users : \E type \in ReportTypes : ExportReport(user, type)

SpecExport == Init /\ [][NextExport]_vars

----------------------------------------------------------------------------
(* POST /api/sales-orders and POST /api/returns with their notification *)

\* what storage.getAdminUsers() does: throws, finds no admin, finds admins
AdminLookups == {"throws", "none", "some"}

\* what transporter.sendMail() does
MailOutcomes == {"sent", "fails"}

\* (mutant) the helper without its try / catch
sendNotificationUncaught(lookup, mail) ==
    IF lookup = "throws" THEN [threw |-> TRUE, sent |-> FALSE, logged |-> FALSE]
    ELSE IF lookup = "none" THEN [threw |-> FALSE, sent |-> FALSE, logged |-> FALSE]
    ELSE IF mail = "fails" THEN [threw |-> TRUE, sent |-> FALSE, logged |-> FALSE]
    ELSE [threw |-> FALSE, sent |-> TRUE, logged |-> FALSE]

\* try { admins = await storage.getAdminUsers(); if (none) return;
\*       await transporter.sendMail(...) } catch (error) { console.error(...) }
sendNotification(lookup, mail) ==
    IF lookup = "throws" THEN [threw |-> FALSE, sent |-> FALSE, logged |-> TRUE]
    ELSE IF lookup = "none" THEN [threw |-> FALSE, sent |-> FALSE, logged |-> FALSE]
    ELSE IF mail = "fails" THEN [threw |-> FALSE, sent |-> FALSE, logged |-> TRUE]
    ELSE [threw |-> FALSE, sent |-> TRUE, logged |-> FALSE]

\* storage.getCustomerById(id)
getCustomerById(d, id) == id \in d.customers

\* the handler: create the order; look the customer up; notify; answer 201.
\* An error thrown on the way goes to next(error): 500
postOrder(d, kind, day, input, items, lookup, mail) ==
    LET r == createOrder(d, kind, day, input, items)
        sent == IF r.ok /\ getCustomerById(r.db, input.party)
                THEN sendNotification(lookup, mail)
                ELSE [threw |-> FALSE, sent |-> FALSE, logged |-> FALSE]
    IN  [ok |-> r.ok, id |-> r.id, db |-> r.db, sent |-> sent.sent, logged |-> sent.logged,
         status |-> IF r.ok /\ ~sent.threw THEN 201 ELSE 500]

PostRoles(kind) ==
    IF kind = "SO" THEN {"admin", "cashier", "owner"}
    ELSE {"admin", "cashier", "warehouse", "owner"}

\* a request to POST /api/sales-orders or POST /api/returns
PostOrder(kind, user, input, items, lookup, mail) ==
    /\ Created(db) < MaxCreates
    /\ LET gate == checkRole(PostRoles(kind), user)
           res == postOrder(db, kind, today, input, items, lookup, mail)
       IN  IF gate.next
           THEN /\ db' = res.db
                /\ last' = [op |-> "create", kind |-> kind, id |-> res.id, ok |-> res.ok,
                            items |-> items, base |-> db]
                /\ req' = [method |-> "POST", guarded |-> TRUE, roles |-> PostRoles(kind),
                           user |-> user, status |-> res.status, ran |-> TRUE,
                           lookup |-> lookup, mail |-> mail, sent |-> res.sent,
                           logged |-> res.logged]
           ELSE /\ db' = db
                /\ last' = NoCall
                /\ req' = [method |-> "POST", guarded |-> TRUE, roles |-> PostRoles(kind),
                           user |-> user, status |-> gate.status, ran |-> FALSE,
                           lookup |-> lookup, mail |-> mail, sent |-> FALSE,
                           logged |-> FALSE]
    /\ out' = None
    /\ UNCHANGED <<today, calls>>

\* the item lists of the requests: two items, and an item of an unknown product
NotifyItemLists == {<<Item(2, 1), Item(1, 2)>>, <<Item(MissingProduct, 1)>>}

NextNotify ==
    \E kind \in {"SO", "RET"} : \E user \in Users : \E input \in SameDayInputs(kind) :
        \E items \in NotifyItemLists : \E lookup \in AdminLookups : \E mail \in MailOutcomes :
            PostOrder(kind, user, input, items, lookup, mail)

SpecNotify == Init /\ [][NextNotify]_vars

----------------------------------------------------------------------------
(* Properties of order numbers and of the stock bookkeeping *)

\* the digit characters and their values, for reading a number back
DigitValue(c) == CHOOSE v \in 0..9 : Digit[v + 1] = c

IsDigits(s) == \A i \in 1..Len(s) : \E v \in 0..9 : Digit[v + 1] = s[i]

RECURSIVE ParseNat(_)
ParseNat(s) ==
    IF s = <<>> THEN 0
    ELSE 10 * ParseNat(SubSeq(s, 1, Len(s) - 1)) + DigitValue(s[Len(s)])

\* the row an order has in its table
RowOf(d, kind, id) == CHOOSE r \in d.orders[kind] : r.id = id

\* the sum of the quantities of the items of a list that reference product p
RECURSIVE SumQty(_, _)
SumQty(items, p) ==
    IF items = <<>> THEN 0
    ELSE (IF Head(items).productId = p THEN Head(items).quantity ELSE 0)
            + SumQty(Tail(items), p)

\* the sum of the quantities of a set of item rows
RECURSIVE SumRows(_)
SumRows(rows) ==
    IF rows = {} THEN 0
    ELSE LET r == CHOOSE x \in rows : TRUE
         IN  r.quantity + SumRows(rows \ {r})

\* the item rows of product p that belong to an existing order of a kind
LiveItems(d, kind, p) ==
    {i \in d.items[kind] : i.productId = p /\ \E r \in d.orders[kind] : r.id = i.orderId}

CreatedOk == last.op = "create" /\ last.ok

C2_NumberIsFresh ==
    last.op = "create" =>
        \A r \in last.base.orders[last.kind] :
            r.orderNumber # OrderNumber(last.kind, today,
                                        CountToday(last.base, last.kind, today))

\* C4: a created order changes the stock of every product by the signed sum of
\* the quantities of its items that reference the product, and by nothing else.
C4_StockDelta ==
    CreatedOk =>
        /\ DOMAIN db.products = DOMAIN last.base.products
        /\ \A p \in DOMAIN db.products :
              db.products[p].stock =
                  IF last.kind = "SO"
                  THEN last.base.products[p].stock - SumQty(last.items, p)
                  ELSE last.base.products[p].stock + SumQty(last.items, p)

\* an order with two items of one product, and a product it does not reference
C4_Witness ==
    /\ CreatedOk
    /\ Len(last.items) = 2
    /\ last.items[1].productId = last.items[2].productId
    /\ \E p \in DOMAIN db.products : SumQty(last.items, p) = 0

\* C5: a creation that fails leaves no row of the order, no item row of it, and
\* every table and every stock as before the call.
C5_CreateAtomic ==
    (last.op = "create" /\ ~last.ok) =>
        /\ \A r \in db.orders[last.kind] : r.id # last.id
        /\ \A i \in db.items[last.kind] : i.orderId # last.id
        /\ db.orders = last.base.orders
        /\ db.items = last.base.items
        /\ db.products = last.base.products

\* the creation failed at its second item, after the first had changed the stock
C5_Witness ==
    /\ last.op = "create" /\ ~last.ok
    /\ Len(last.items) = 2
    /\ last.items[1].productId \in DOMAIN db.products
    /\ last.items[2].productId \notin DOMAIN db.products

\* C6: deleting an order right after creating it succeeds, puts every stock back
\* to its value before the creation, and removes the order and all of its items.
C6_DeleteRevertsCreate ==
    (last.op = "delete" /\ last.base # None) =>
        /\ last.ok
        /\ \A r \in db.orders[last.kind] : r.id # last.id
        /\ \A i \in db.items[last.kind] : i.orderId # last.id
        /\ \A p \in DOMAIN last.base.products :
              db.products[p].stock = last.base.products[p].stock
        /\ db.orders = last.base.orders
        /\ db.items = last.base.items

\* an order with two items was created and then deleted
C6_Witness ==
    /\ last.op = "delete" /\ last.base # None
    /\ Len(last.items) = 2

\* C7: the stock of a product is its initial stock, plus its quantities in the
\* existing purchase orders, minus those in the existing sales orders, plus
\* those in the existing returns.
C7_StockInvariant ==
    \A p \in DOMAIN db.products :
        db.products[p].stock =
            InitStock + SumRows(LiveItems(db, "PO", p))
                      - SumRows(LiveItems(db, "SO", p))
                      + SumRows(LiveItems(db, "RET", p))

\* an order has been deleted, a sales order with two items exists, and a stock
\* differs from the initial stock
C7_Witness ==
    /\ last.op = "delete" /\ last.ok
    /\ \E p \in DOMAIN db.products : Cardinality(LiveItems(db, "SO", p)) = 2
    /\ \E p \in DOMAIN db.products : db.products[p].stock # InitStock


----------------------------------------------------------------------------
(* Properties of the routes *)

\* C8: on a route guarded by checkRole(roles), a request without a session is
\* answered 401, a request of a user whose role is not in roles is answered
\* 403, neither runs the handler nor changes the database, and the handler
\* runs only for an authenticated user whose role is in roles.
C8_CheckRole ==
    [][ req'.guarded =>
          /\ ~req'.user.authenticated =>
                (req'.status = 401 /\ ~req'.ran /\ db' = db)
          /\ (req'.user.authenticated /\ req'.user.role \notin req'.roles) =>
                (req'.status = 403 /\ ~req'.ran /\ db' = db)
          /\ req'.ran => (req'.user.authenticated /\ req'.user.role \in req'.roles) ]_vars

\* a warehouse user has been refused on a route that lets other roles in, after
\* a request by a user the route lets in has inserted a row
C8_Witness ==
    /\ req # None
    /\ req.guarded /\ req.user.authenticated /\ req.user.role = "warehouse"
    /\ req.roles # {}
    /\ req.status = 403
    /\ Created(db) = 1

\* a record of one of the seven kinds is in d and not in e
Removed(d, e) ==
    \/ ~(d.categories \subseteq e.categories)
    \/ ~(DOMAIN d.products \subseteq DOMAIN e.products)
    \/ ~(d.customers \subseteq e.customers)
    \/ ~(d.vendors \subseteq e.vendors)
    \/ \E k \in Kinds : \E r \in d.orders[k] : \A o \in e.orders[k] : o.id # r.id

StockChanged(d, e) ==
    \E p \in DOMAIN d.products \cap DOMAIN e.products :
        d.products[p].stock # e.products[p].stock

AdminOrOwner(user) == user.authenticated /\ user.role \in {"admin", "owner"}

\* C9: a request removes a record, or changes a stock through a delete route,
\* only if its user is authenticated with the role admin or owner.
C9_DeleteOnlyByAdminOrOwner ==
    [][ AdminOrOwner(req'.user)
          \/ ~(Removed(db, db') \/ (req'.method = "DELETE" /\ StockChanged(db, db'))) ]_vars

\* an owner's DELETE was answered 204 and the sales order created before is gone,
\* its stock change reverted
C9_Witness ==
    /\ req # None
    /\ req.method = "DELETE" /\ req.status = 204
    /\ req.user.authenticated /\ req.user.role = "owner"
    /\ db.seq["SO"] = 1 /\ db.orders["SO"] = {} /\ db.items["SO"] = {}
    /\ db.itemSeq["SO"] = 1

----------------------------------------------------------------------------
(* Properties of the reports *)

Unfiltered(report) ==
    /\ out # None
    /\ out.report = report
    /\ out.startDate = NoDate /\ out.endDate = NoDate

\* the rows of a report are the orders of a kind with one of the statuses, one
\* row per order, with the order's amount and status
ExactlyTheOrders(kind, statuses) ==
    /\ {row.id : row \in out.rows} = {r.id : r \in {o \in db.orders[kind] : o.status \in statuses}}
    /\ Cardinality(out.rows) = Cardinality({row.id : row \in out.rows})
    /\ \A row \in out.rows :
          /\ row.totalAmount = RowOf(db, kind, row.id).totalAmount
          /\ row.status = RowOf(db, kind, row.id).status

\* C10: without dates, getAccountsPayable returns exactly the purchase orders
\* that are pending or partial and getAccountsReceivable exactly the sales
\* orders that are unpaid or partial; remainingAmount is totalAmount, and half
\* of it for a partial order; completed, cancelled and paid orders never appear.
C10_Outstanding ==
    /\ Unfiltered("payable") =>
          /\ ExactlyTheOrders("PO", {"pending", "partial"})
          /\ \A row \in out.rows :
                /\ row.status = "pending" => row.remainingAmount = row.totalAmount
                /\ row.status = "partial" => 2 * row.remainingAmount = row.totalAmount
                /\ row.status \notin {"completed", "cancelled"}
    /\ Unfiltered("receivable") =>
          /\ ExactlyTheOrders("SO", {"unpaid", "partial"})
          /\ \A row \in out.rows :
                /\ row.status = "unpaid" => row.remainingAmount = row.totalAmount
                /\ row.status = "partial" => 2 * row.remainingAmount = row.totalAmount
                /\ row.status # "paid"

\* the payables were asked for without dates while a partial and a completed
\* purchase order exist
C10_Witness ==
    /\ Unfiltered("payable")
    /\ \E row \in out.rows : row.status = "partial" /\ row.totalAmount > 0
    /\ \E r \in db.orders["PO"] : r.status = "completed"

\* the sum of the totalAmount of a set of order rows
RECURSIVE AmountOf(_)
AmountOf(rows) ==
    IF rows = {} THEN 0
    ELSE LET r == CHOOSE x \in rows : TRUE
         IN  r.totalAmount + AmountOf(rows \ {r})

\* the orders of a kind dated in a month of a year, by the calendar
DatedIn(kind, year, month) ==
    {r \in db.orders[kind] : YMD(r.date).y = year /\ YMD(r.date).m = month}

RECURSIVE SumTotals(_, _)
SumTotals(rows, n) == IF n = 0 THEN 0 ELSE rows[n].total + SumTotals(rows, n - 1)

\* C11: getMonthlySalesReport(year) returns 12 entries, month = 1..12 in order;
\* the total of entry m is the sum of totalAmount of the sales orders dated in
\* month m of the year (0 when there is none), and the 12 totals add up to the
\* sum over the sales orders dated in the year.
C11_MonthlySales ==
    (out # None /\ out.report = "monthly") =>
        /\ Len(out.rows) = 12
        /\ \A m \in 1..12 :
              /\ out.rows[m].month = m
              /\ out.rows[m].total = AmountOf(DatedIn("SO", out.year, m))
        /\ SumTotals(out.rows, 12) =
              AmountOf({r \in db.orders["SO"] : YMD(r.date).y = out.year})

\* the report of a year with a sale on its last day, while another sale is dated
\* on the first day of the next year
C11_Witness ==
    /\ out # None /\ out.report = "monthly" /\ out.year = EpochYear
    /\ \E r \in db.orders["SO"] : r.date = 366
    /\ \E r \in db.orders["SO"] : r.date = 367
    /\ out.rows[12].total > 0 /\ out.rows[1].total = 0

\* the cost of the items of the sales orders dated in a month: quantity times
\* the cost price the product has now
RECURSIVE CostOf(_)
CostOf(items) ==
    IF items = {} THEN 0
    ELSE LET i == CHOOSE x \in items : TRUE
         IN  i.quantity * db.products[i.productId].costPrice + CostOf(items \ {i})

\* C12: getProfitLossReport(month, year) returns the sum of the sales of the
\* month, the cost of exactly their items at the current cost price, the sum of
\* the returns of the month, grossProfit = totalSales - totalCogs and
\* netProfit = grossProfit - totalReturns; all five are 0 for an empty month.
C12_ProfitLoss ==
    (out # None /\ out.report = "profitLoss") =>
        LET r == out.rows
            sales == DatedIn("SO", r.year, r.month)
            returns == DatedIn("RET", r.year, r.month)
            items == {i \in db.items["SO"] : \E o \in sales : o.id = i.orderId}
        IN  /\ r.totalSales = AmountOf(sales)
            /\ r.totalCogs = CostOf(items)
            /\ r.totalReturns = AmountOf(returns)
            /\ r.grossProfit = r.totalSales - r.totalCogs
            /\ r.netProfit = r.grossProfit - r.totalReturns
            /\ (sales = {} /\ returns = {}) =>
                  /\ r.totalSales = 0 /\ r.totalCogs = 0 /\ r.totalReturns = 0
                  /\ r.grossProfit = 0 /\ r.netProfit = 0

\* the report of a month with a sale of two items and a return, after the cost
\* price of a sold product was changed
C12_Witness ==
    /\ out # None /\ out.report = "profitLoss"
    /\ out.rows.totalCogs > 0 /\ out.rows.totalReturns > 0
    /\ db.products[1].costPrice # InitCostPrice
    /\ \E i \in db.items["SO"] : i.quantity = 2

\* C13 (as claimed): with dates, the reports return exactly the outstanding
\* orders dated on or after startDate (when given) and on or before endDate
\* (when given).
C13_DateFilters ==
    (out # None /\ out.report \in {"payable", "receivable"}) =>
        LET kind == IF out.report = "payable" THEN "PO" ELSE "SO"
            outstanding == IF kind = "PO" THEN {"pending", "partial"} ELSE {"unpaid", "partial"}
        IN  {row.id : row \in out.rows} =
                {r.id : r \in {o \in db.orders[kind] :
                                  /\ o.status \in outstanding
                                  /\ out.startDate # NoDate => o.date >= out.startDate
                                  /\ out.endDate # NoDate => o.date <= out.endDate}}

\* C19: ageDays of every row of the payables and receivables is a natural
\* number: the days by which today is past the due date, 0 when the due date is
\* today or later, 0 without a due date.
C19_AgeDays ==
    (out # None /\ out.report \in {"payable", "receivable"}) =>
        \A row \in out.rows :
            /\ row.ageDays \in Nat
            /\ row.ageDays = IF row.dueDate = NULL \/ row.dueDate >= today THEN 0
                             ELSE today - row.dueDate

\* the payables hold an order two days past its due date and one not yet due
C19_Witness ==
    /\ out # None /\ out.report = "payable"
    /\ \E row \in out.rows : row.ageDays = 2
    /\ \E row \in out.rows : row.dueDate > today /\ row.ageDays = 0

\* the sum of remainingAmount over the rows of a report
RECURSIVE SumRemaining(_)
SumRemaining(rows) ==
    IF rows = {} THEN 0
    ELSE LET r == CHOOSE x \in rows : TRUE
         IN  r.remainingAmount + SumRemaining(rows \ {r})

\* C20: in every state the dashboard's totalPayables and totalReceivables are
\* the sums of remainingAmount over the payables and the receivables asked for
\* without dates, and monthlyProfit is the netProfit of the profit and loss
\* report of the current month and year.
C20_DashboardAgrees ==
    LET stats == getDashboardStats(db, today)
        now == GetTime(today, 0)
    IN  /\ stats.totalPayables = SumRemaining(getAccountsPayable(db, now, NoDate, NoDate))
        /\ stats.totalReceivables = SumRemaining(getAccountsReceivable(db, now, NoDate, NoDate))
        /\ stats.monthlyProfit = getProfitLossReport(db, YMD(today).m, YMD(today).y).netProfit
        /\ (out # None /\ out.report = "dashboard") => out.rows = stats

\* the dashboard was asked for with a partial purchase order, an open sales order
\* and a profit in the current month
C20_Witness ==
    /\ out # None /\ out.report = "dashboard"
    /\ \E r \in db.orders["PO"] : r.status = "partial"
    /\ out.rows.totalPayables > 0 /\ out.rows.totalReceivables > 0
    /\ out.rows.monthlyProfit # 0

----------------------------------------------------------------------------
(* Properties of the stock and of the status updates *)

StockCall == last.op = "updateProductStock"

\* C14: updateProductStock fails with 'Product not found' for a product that
\* does not exist and with 'Cannot reduce stock below zero' when the new stock
\* would be negative, and then changes no stock; otherwise it sets the stock to
\* stock + quantityChange and returns the updated product.
C14_UpdateProductStock ==
    StockCall =>
        LET before == last.base.products
        IN  IF last.id \notin DOMAIN before
            THEN ~last.ok /\ last.error = "Product not found" /\ db.products = before
            ELSE IF before[last.id].stock + last.quantityChange < 0
            THEN ~last.ok /\ last.error = "Cannot reduce stock below zero"
                    /\ db.products = before
            ELSE /\ last.ok
                 /\ db.products[last.id].stock = before[last.id].stock + last.quantityChange
                 /\ last.product = db.products[last.id]
                 /\ \A p \in DOMAIN before : p # last.id => db.products[p] = before[p]
                 /\ DOMAIN db.products = DOMAIN before

\* a call was refused for taking a stock below zero, after calls that changed it
C14_Witness ==
    /\ StockCall /\ ~last.ok /\ last.error = "Cannot reduce stock below zero"
    /\ db.products[last.id].stock = 1
    /\ \E p \in DOMAIN db.products : db.products[p].stock > InitStock

\* C15 (as claimed): the stock of every product is never negative.
C15_StockNeverNegative ==
    \A p \in DOMAIN db.products : db.products[p].stock >= 0

\* C16 (as claimed): two concurrent updateProductStock calls on one product that
\* both succeed leave the stock at the original stock plus both changes, and
\* not below zero.
C16_ConcurrentStockUpdates ==
    \A c1, c2 \in CallIds :
        ( /\ c1 # c2
          /\ calls[c1].pc = "returned" /\ calls[c2].pc = "returned"
          /\ calls[c1].id = calls[c2].id
          /\ \A c \in CallIds \ {c1, c2} : calls[c].pc = "start" ) =>
            /\ db.products[calls[c1].id].stock =
                  InitStock + calls[c1].quantityChange + calls[c2].quantityChange
            /\ db.products[calls[c1].id].stock >= 0

\* the rows of a table, except the row with an id
Others(rows, id) == {r \in rows : r.id # id}

\* C17: a status update changes the status of the addressed record and nothing
\* else: no stock, no item, no other order; and any status of the kind's enum
\* is accepted whatever the status before.
C17_StatusOnly ==
    [][ last'.op = "status" =>
          LET k == last'.kind
              id == last'.id
          IN  /\ db'.products = db.products
              /\ db'.items = db.items
              /\ \A j \in Kinds \ {k} : db'.orders[j] = db.orders[j]
              /\ Others(db'.orders[k], id) = Others(db.orders[k], id)
              /\ \A r \in db.orders[k] : r.id = id =>
                    /\ \E n \in db'.orders[k] :
                          n = [r EXCEPT !.status = n.status]
                    /\ last'.status \in StatusEnum(k) =>
                          [r EXCEPT !.status = last'.status] \in db'.orders[k]
              /\ Cardinality(db'.orders[k]) = Cardinality(db.orders[k]) ]_vars

\* a purchase order with items was cancelled while another order exists and the
\* stock is not the initial one
C17_Witness ==
    /\ last.op = "status" /\ last.kind = "PO" /\ last.status = "cancelled" /\ last.ok
    /\ \E r \in db.orders["PO"] : r.id = last.id /\ r.status = "cancelled"
    /\ \E i \in db.items["PO"] : i.orderId = last.id
    /\ \E p \in DOMAIN db.products : db.products[p].stock > InitStock
    /\ Cardinality(db.orders["PO"]) + Cardinality(db.orders["SO"])
          + Cardinality(db.orders["RET"]) = 2

\* C18: a deletion that fails leaves the order, all of its items and every
\* stock as they were before the call.
C18_FailedDeleteRollsBack ==
    [][ (last'.op = "delete" /\ ~last'.ok) =>
          /\ db'.orders = db.orders
          /\ db'.items = db.items
          /\ db'.products = db.products ]_vars

\* the deletion of a sales order with items failed: a return references it
C18_Witness ==
    /\ last.op = "delete" /\ ~last.ok /\ last.kind = "SO"
    /\ \E r \in db.orders["SO"] : r.id = last.id
    /\ \E r \in db.orders["RET"] : r.salesOrderId = last.id
    /\ \E i \in db.items["SO"] : i.orderId = last.id

----------------------------------------------------------------------------
(* Properties of the recent transactions, the PDF layout, the exports and  *)
(* the notifications                                                       *)

\* every sales order, purchase order and return, as type, id and date
AllTransactions ==
    UNION {{[type |-> TypeOf(k), id |-> r.id, date |-> r.date] : r \in db.orders[k]} :
              k \in Kinds}

\* C21: getRecentTransactions(limit) returns min(limit, number of transactions)
\* entries, each an existing transaction and none twice, sorted from newest to
\* oldest, and no transaction left out is newer than one in the result.
C21_RecentTransactions ==
    (out # None /\ out.report = "recent") =>
        LET rows == out.rows
            n == Len(rows)
            shown == {[type |-> rows[i].type, id |-> rows[i].id, date |-> rows[i].date] :
                         i \in 1..n}
        IN  /\ n = (IF out.limit <= Cardinality(AllTransactions) THEN out.limit
                    ELSE Cardinality(AllTransactions))
            /\ shown \subseteq AllTransactions
            /\ Cardinality(shown) = n
            /\ \A i, j \in 1..n : i < j => rows[i].date >= rows[j].date
            /\ \A t \in AllTransactions \ shown : \A x \in shown : t.date <= x.date

\* two of three transactions were returned: two kinds in the result, the newest
\* first, and an older transaction of a kind in the result left out
C21_Witness ==
    /\ out # None /\ out.report = "recent" /\ out.limit = 2
    /\ Len(out.rows) = 2
    /\ out.rows[1].type # out.rows[2].type
    /\ out.rows[1].date > out.rows[2].date
    /\ \E t \in AllTransactions :
          /\ t.type = out.rows[1].type /\ t.id # out.rows[1].id
          /\ t.date < out.rows[2].date

\* the rows and the total line drawn so far
RowDraws == {d \in out.draws : d.what \in {"row", "total"}}

\* C22 (as claimed): every row and the total line is drawn on the page added
\* last, no two of them at the same position of the same page, and none over
\* the title block of the first page.
C22_RowsOnNewPage ==
    Drawing =>
        /\ \A d \in RowDraws : d.page = d.pages
        /\ \A d, e \in RowDraws : (d # e) => (d.page # e.page \/ d.y # e.y)
        /\ \A d \in RowDraws : d.page = 1 => d.y < PageHeight - DateOffset

\* the export route was asked
Exported == req # None /\ req.method = "GET"

\* C23: the export route sends a PDF only for the types inventory,
\* accounts-payable and accounts-receivable; its handler answers every other
\* type, sales and profit-loss of the report pages among them, with 400
\* 'Invalid report type' and no PDF.
C23_ExportTypes ==
    Exported =>
        LET known == {"inventory", "accounts-payable", "accounts-receivable"}
        IN  /\ req.pdf => (req.type \in known /\ req.status = 200)
            /\ (req.ran /\ req.type \in known) => (req.pdf /\ req.status = 200)
            /\ (req.ran /\ req.type \notin known) =>
                  (req.status = 400 /\ req.message = "Invalid report type" /\ ~req.pdf)
            /\ {"sales", "profit-loss"} \subseteq PageReportTypes \ known

\* an owner asked for the sales report while orders exist, and was refused
C23_Witness ==
    /\ Exported /\ req.ran /\ req.user.role = "owner"
    /\ req.type = "sales" /\ req.status = 400
    /\ db.orders["SO"] # {}

\* a request to POST /api/sales-orders or /api/returns passed the gate
Posted == req # None /\ req.method = "POST" /\ req.ran

\* C24: when the creation has committed, the request is answered 201 whether
\* the admin lookup and the mail succeed or fail, and the order, its items and
\* its stock changes are in the database.
C24_NotificationFailure ==
    (Posted /\ last.op = "create" /\ last.ok) =>
        /\ req.status = 201
        /\ \E r \in db.orders[last.kind] : r.id = last.id
        /\ Cardinality({i \in db.items[last.kind] : i.orderId = last.id}) = Len(last.items)
        /\ \A p \in DOMAIN db.products :
              db.products[p].stock =
                  IF last.kind = "SO"
                  THEN last.base.products[p].stock - SumQty(last.items, p)
                  ELSE last.base.products[p].stock + SumQty(last.items, p)

\* a sales order with two items was created and the mail to the admins failed
C24_Witness ==
    /\ Posted /\ last.op = "create" /\ last.ok /\ last.kind = "SO"
    /\ req.lookup = "some" /\ req.mail = "fails" /\ req.logged /\ ~req.sent
    /\ Len(last.items) = 2
    /\ req.status = 201

====
